---------------------------- MODULE Spec2Model ----------------------------
(***************************************************************************)
(* Elliptical-arc geometry of src/components/utils.ts: convertArcParams    *)
(* (SVG endpoint form -> centre form) and arcBound (bounding box).         *)
(*                                                                         *)
(* A JavaScript number is modelled as a fixed-point value: Fin(n) stands   *)
(* for n / Scale, and NaN and +-Infinity are values of their own, produced *)
(* and propagated as IEEE-754 produces them (x/0, 0/0, Inf*0, Inf-Inf,     *)
(* sqrt and acos outside their domain).  Every arithmetic operation rounds *)
(* to the nearest representable value, as floating point does, at a        *)
(* resolution of 1/Scale instead of 2^-53.  Angles are radians in the same *)
(* fixed-point format, so Math.PI is the number 3.1416.  There is no       *)
(* negative zero: the rotations of the model have a remainder by 180 that  *)
(* is positive, negative or +0, never -0.                                  *)
(***************************************************************************)
EXTENDS Integers, Sequences, FiniteSets, TLC

\* Resolution of the fixed-point numbers: Fin(n) is n / Scale.
Scale == 100 * 100

\* Math.PI at that resolution.
PI == 31416

(***************************************************************************)
(* Integer kernels: arithmetic on the integer n of a finite number.        *)
(***************************************************************************)
AbsI(a) == IF a < 0 THEN -a ELSE a

SgnI(a) == IF a < 0 THEN -1 ELSE 1

\* a * b / Scale rounded to nearest, without leaving 32 bits on the way.
MulI(a, b) ==
  LET A  == AbsI(a)
      B  == AbsI(b)
      ah == A \div Scale
      al == A % Scale
      bh == B \div Scale
      bl == B % Scale
  IN  SgnI(a) * SgnI(b)
        * (ah * bh * Scale + ah * bl + al * bh + (al * bl + Scale \div 2) \div Scale)

\* One decimal digit of a long division: <<quotient so far, remainder>>.
DivStep(qr, B) ==
  <<qr[1] * 10 + (qr[2] * 10) \div B, (qr[2] * 10) % B>>

\* a * Scale / b rounded to nearest (b # 0), by long division.
DivI(a, b) ==
  LET A  == AbsI(a)
      B  == AbsI(b)
      s0 == <<A \div B, A % B>>
      s4 == DivStep(DivStep(DivStep(DivStep(s0, B), B), B), B)
  IN  SgnI(a) * SgnI(b) * (s4[1] + (IF 2 * s4[2] >= B THEN 1 ELSE 0))

\* The largest r in lo..hi with r * r <= n (lo * lo <= n).
RECURSIVE ISqrtSearch(_, _, _)
ISqrtSearch(n, lo, hi) ==
  IF lo >= hi THEN lo
  ELSE LET mid == (lo + hi + 1) \div 2
       IN  IF mid * mid <= n THEN ISqrtSearch(n, mid, hi)
           ELSE ISqrtSearch(n, lo, mid - 1)

\* r or r + 1, whichever is nearer to the square root of n.
RoundRoot(n, r) == IF n - r * r > r THEN r + 1 ELSE r

\* The integer nearest to the square root of n >= 0.
ISqrt(n) == RoundRoot(n, ISqrtSearch(n, 0, 46340))

\* sqrt(a / Scale) * Scale for a >= 0, to the precision 32 bits allow.
SqrtI(a) ==
  IF a <= 200000 THEN ISqrt(a * Scale)
  ELSE IF a <= 20000000 THEN 10 * ISqrt(a * 100)
  ELSE 100 * ISqrt(a)

HalfPI == (PI + 1) \div 2

TwoPI == 2 * PI

\* sin on [0, pi/4], Taylor polynomial in Horner form.
SinPoly(x) ==
  LET x2 == MulI(x, x)
      t3 == Scale - (MulI(x2, Scale) + 21) \div 42
      t2 == Scale - (MulI(x2, t3) + 10) \div 20
      t1 == Scale - (MulI(x2, t2) + 3) \div 6
  IN  MulI(x, t1)

\* cos on [0, pi/4], Taylor polynomial in Horner form.
CosPoly(x) ==
  LET x2 == MulI(x, x)
      t4 == Scale - (MulI(x2, Scale) + 28) \div 56
      t3 == Scale - (MulI(x2, t4) + 15) \div 30
      t2 == Scale - (MulI(x2, t3) + 6) \div 12
  IN  Scale - (MulI(x2, t2) + 1) \div 2

\* sin on [0, pi/2].
SinQuadrant(x) ==
  IF 2 * x <= HalfPI THEN SinPoly(x) ELSE CosPoly(HalfPI - x)

\* sin of any finite angle.
SinI(x) ==
  LET r == x % TwoPI
  IN  IF r <= HalfPI THEN SinQuadrant(r)
      ELSE IF r <= PI THEN SinQuadrant(PI - r)
      ELSE IF r <= PI + HalfPI THEN -SinQuadrant(r - PI)
      ELSE -SinQuadrant(TwoPI - r)

CosI(x) == SinI(x + HalfPI)

\* The smallest angle t in lo..hi with cos t <= c (cos decreases on 0..pi).
RECURSIVE AcosSearch(_, _, _)
AcosSearch(c, lo, hi) ==
  IF lo >= hi THEN lo
  ELSE LET mid == (lo + hi) \div 2
       IN  IF CosI(mid) <= c THEN AcosSearch(c, lo, mid)
           ELSE AcosSearch(c, mid + 1, hi)

\* acos on 0..Scale: the middle of the angles whose cosine rounds to c.
AcosQuadrant(c) ==
  IF c >= Scale THEN 0
  ELSE LET first == AcosSearch(c, 0, HalfPI)
           next  == IF c = 0 THEN first + 1 ELSE AcosSearch(c - 1, 0, HalfPI)
       IN  (first + next - 1) \div 2

\* acos of c in -Scale..Scale, in 0..PI.
AcosI(c) ==
  IF c >= 0 THEN AcosQuadrant(c) ELSE PI - AcosQuadrant(-c)

\* The smallest angle t in lo..hi with tan t >= x >= 0 (tan increases).
RECURSIVE AtanSearch(_, _, _)
AtanSearch(x, lo, hi) ==
  IF lo >= hi THEN lo
  ELSE LET mid == (lo + hi) \div 2
       IN  IF SinI(mid) >= MulI(x, CosI(mid)) THEN AtanSearch(x, lo, mid)
           ELSE AtanSearch(x, mid + 1, hi)

\* atan of a finite x, in -HalfPI..HalfPI.
AtanI(x) ==
  IF x >= 0 THEN AtanSearch(x, 0, HalfPI) ELSE -AtanSearch(-x, 0, HalfPI)


(***************************************************************************)
(* JavaScript numbers and the operations the source applies to them.       *)
(***************************************************************************)
Fin(n) == [k |-> "fin", v |-> n]

NaN == [k |-> "nan", v |-> 0]

\* s = 1: Infinity, s = -1: -Infinity.
Inf(s) == [k |-> "inf", v |-> s]

\* The number i (an integer literal of the source).
Int2Num(i) == Fin(i * Scale)

IsFinite(a) == a.k = "fin"

IsNaN(a) == a.k = "nan"

\* The sign of a non-NaN number; zero counts as positive (no signed zero).
Sgn(a) == IF a.v < 0 THEN -1 ELSE 1

IsZero(a) == a.k = "fin" /\ a.v = 0

\* a < b; false when either is NaN.
Lt(a, b) ==
  /\ ~IsNaN(a)
  /\ ~IsNaN(b)
  /\ IF a.k = "inf" THEN a.v < 0 /\ ~(b.k = "inf" /\ b.v < 0)
     ELSE IF b.k = "inf" THEN b.v > 0
     ELSE a.v < b.v

Gt(a, b) == Lt(b, a)

\* a == b; false when either is NaN.
Eq(a, b) == ~IsNaN(a) /\ ~IsNaN(b) /\ a = b

Neg(a) == IF IsNaN(a) THEN NaN ELSE [a EXCEPT !.v = -a.v]

Add(a, b) ==
  IF IsNaN(a) \/ IsNaN(b) THEN NaN
  ELSE IF a.k = "inf" THEN (IF b.k = "inf" /\ b.v # a.v THEN NaN ELSE a)
  ELSE IF b.k = "inf" THEN b
  ELSE Fin(a.v + b.v)

Sub(a, b) == Add(a, Neg(b))

Mul(a, b) ==
  IF IsNaN(a) \/ IsNaN(b) THEN NaN
  ELSE IF a.k = "inf" \/ b.k = "inf"
       THEN (IF IsZero(a) \/ IsZero(b) THEN NaN ELSE Inf(Sgn(a) * Sgn(b)))
  ELSE Fin(MulI(a.v, b.v))

Div(a, b) ==
  IF IsNaN(a) \/ IsNaN(b) THEN NaN
  ELSE IF a.k = "inf" THEN (IF b.k = "inf" THEN NaN ELSE Inf(Sgn(a) * Sgn(b)))
  ELSE IF b.k = "inf" THEN Fin(0)
  ELSE IF b.v = 0 THEN (IF a.v = 0 THEN NaN ELSE Inf(Sgn(a)))
  ELSE Fin(DivI(a.v, b.v))

\* a % b: the remainder has the sign of the dividend.
Rem(a, b) ==
  IF ~IsFinite(a) \/ IsNaN(b) \/ IsZero(b) THEN NaN
  ELSE IF b.k = "inf" THEN a
  ELSE Fin(SgnI(a.v) * (AbsI(a.v) % AbsI(b.v)))

MathAbs(a) == IF IsNaN(a) THEN NaN ELSE [a EXCEPT !.v = AbsI(a.v)]

MathSqrt(a) ==
  IF IsNaN(a) \/ Lt(a, Fin(0)) THEN NaN
  ELSE IF a.k = "inf" THEN a
  ELSE Fin(SqrtI(a.v))

MathSin(a) == IF IsFinite(a) THEN Fin(SinI(a.v)) ELSE NaN

MathCos(a) == IF IsFinite(a) THEN Fin(CosI(a.v)) ELSE NaN

MathAtan(a) ==
  IF IsNaN(a) THEN NaN
  ELSE IF a.k = "inf" THEN Fin(a.v * HalfPI)
  ELSE Fin(AtanI(a.v))

MathAcos(a) ==
  IF IsFinite(a) /\ a.v >= -Scale /\ a.v <= Scale THEN Fin(AcosI(a.v)) ELSE NaN

Max2(a, b) == IF IsNaN(a) \/ IsNaN(b) THEN NaN ELSE IF Lt(a, b) THEN b ELSE a

Min2(a, b) == IF IsNaN(a) \/ IsNaN(b) THEN NaN ELSE IF Lt(b, a) THEN b ELSE a

\* Math.max(...xs) and Math.min(...xs) of a non-empty list.
RECURSIVE MathMax(_)
MathMax(xs) ==
  IF Len(xs) = 1 THEN xs[1] ELSE Max2(xs[1], MathMax(Tail(xs)))

RECURSIVE MathMin(_)
MathMin(xs) ==
  IF Len(xs) = 1 THEN xs[1] ELSE Min2(xs[1], MathMin(Tail(xs)))

MathPI == Fin(PI)

(***************************************************************************)
(* The functions of utils.ts.  A local constant of the source that later   *)
(* lines read is a parameter of the operator modelling those lines.        *)
(***************************************************************************)
norm(v) == MathSqrt(Add(Mul(v.x, v.x), Mul(v.y, v.y)))

\* The signed angle from u to v.
angle(u, v) ==
  LET product == Add(Mul(u.x, v.x), Mul(u.y, v.y))
      sign    == IF Lt(Sub(Mul(u.x, v.y), Mul(u.y, v.x)), Fin(0))
                 THEN Int2Num(-1) ELSE Int2Num(1)
  IN  Mul(sign, MathAcos(Div(product, Mul(norm(u), norm(v)))))

\* rotation % 180 / 180 * Math.PI
PhiOf(rotation) ==
  Mul(Div(Rem(rotation, Int2Num(180)), Int2Num(180)), MathPI)

\* A faulty DegenerateAlt, giving the segment a span of zero; C3 tells it
\* from DegenerateAlt.
DegenerateAlt_ZeroSpan(arc) ==
  [phi |-> PhiOf(arc.rotation), rx |-> arc.rx, ry |-> arc.ry,
   cx |-> Div(Add(arc.start.x, arc.end.x), Int2Num(2)),
   cy |-> Div(Add(arc.start.y, arc.end.y), Int2Num(2)),
   theta1 |-> Fin(0),
   dtheta |-> Fin(0)]

\* The line-segment result for a zero radius.
DegenerateAlt(arc) ==
  [phi |-> PhiOf(arc.rotation), rx |-> arc.rx, ry |-> arc.ry,
   cx |-> Div(Add(arc.start.x, arc.end.x), Int2Num(2)),
   cy |-> Div(Add(arc.start.y, arc.end.y), Int2Num(2)),
   theta1 |-> Fin(0),
   dtheta |-> MathPI]

\* x_1', y_1': half the chord from end to start, in the ellipse's frame.
ChordInFrame(arc, sinPhi, cosPhi) ==
  LET dx2 == Div(Sub(arc.start.x, arc.end.x), Int2Num(2))
      dy2 == Div(Sub(arc.start.y, arc.end.y), Int2Num(2))
  IN  [x |-> Add(Mul(cosPhi, dx2), Mul(sinPhi, dy2)),
       y |-> Add(Mul(Neg(sinPhi), dx2), Mul(cosPhi, dy2))]

\* sqrt(x1p2 / (rx * rx) + y1p2 / (ry * ry))
SqrtLambda(rx, ry, p) ==
  MathSqrt(Add(Div(Mul(p.x, p.x), Mul(rx, rx)), Div(Mul(p.y, p.y), Mul(ry, ry))))

\* A faulty ScaleRadii, enlarging rx alone; C9 tells it from ScaleRadii.
ScaleRadii_OnlyRx(rx, ry, sqrtLambda) ==
  IF Gt(sqrtLambda, Int2Num(1))
  THEN [rx |-> Mul(sqrtLambda, rx), ry |-> ry]
  ELSE [rx |-> rx, ry |-> ry]

\* The radii after the correction of out-of-range radii.
ScaleRadii(rx, ry, sqrtLambda) ==
  IF Gt(sqrtLambda, Int2Num(1))
  THEN [rx |-> Mul(sqrtLambda, rx), ry |-> Mul(sqrtLambda, ry)]
  ELSE [rx |-> rx, ry |-> ry]

CorrectRadii(rx, ry, p) == ScaleRadii(rx, ry, SqrtLambda(rx, ry, p))

\* A faulty RootSign, with the two roots exchanged; C8 tells it from RootSign.
RootSign_Exchanged(largeArc, sweep) ==
  IF largeArc = sweep THEN Int2Num(1) ELSE Int2Num(-1)

\* The sign of the centre's root chosen by the two flags.
RootSign(largeArc, sweep) == IF largeArc = sweep THEN Int2Num(-1) ELSE Int2Num(1)

\* Math.max(0, rx2 * ry2 - rx2 * y1p2 - ry2 * x1p2)
CFactorA(rx2, ry2, x1p2, y1p2) ==
  Max2(Fin(0), Sub(Sub(Mul(rx2, ry2), Mul(rx2, y1p2)), Mul(ry2, x1p2)))

CFactor(rx2, ry2, x1p2, y1p2, largeArc, sweep) ==
  Mul(MathSqrt(Div(CFactorA(rx2, ry2, x1p2, y1p2),
                   Add(Mul(rx2, y1p2), Mul(ry2, x1p2)))),
      RootSign(largeArc, sweep))

\* c_x', c_y'
CentreInFrame(cFactor, r, p) ==
  [x |-> Div(Mul(Mul(cFactor, r.rx), p.y), r.ry),
   y |-> Div(Mul(Mul(Neg(cFactor), r.ry), p.x), r.rx)]

\* A faulty SweepCorrect, with the two tests of sweep exchanged; C6 tells it
\* from SweepCorrect.
SweepCorrect_Exchanged(sweep, dtheta) ==
  IF sweep /\ Gt(dtheta, Fin(0)) THEN Sub(dtheta, Mul(Int2Num(2), MathPI))
  ELSE IF ~sweep /\ Lt(dtheta, Fin(0)) THEN Add(dtheta, Mul(Int2Num(2), MathPI))
  ELSE dtheta

\* The sweep flag's correction of dtheta.
SweepCorrect(sweep, dtheta) ==
  IF ~sweep /\ Gt(dtheta, Fin(0)) THEN Sub(dtheta, Mul(Int2Num(2), MathPI))
  ELSE IF sweep /\ Lt(dtheta, Fin(0)) THEN Add(dtheta, Mul(Int2Num(2), MathPI))
  ELSE dtheta

\* From the centre on: c_x, c_y, the start angle and the delta angle.
ConvertAngles(arc, phi, sinPhi, cosPhi, p, r, c) ==
  LET vec1 == [x |-> Div(Sub(p.x, c.x), r.rx), y |-> Div(Sub(p.y, c.y), r.ry)]
      vec2 == [x |-> Div(Sub(Neg(p.x), c.x), r.rx),
               y |-> Div(Sub(Neg(p.y), c.y), r.ry)]
  IN  [phi |-> phi, rx |-> r.rx, ry |-> r.ry,
       cx  |-> Add(Sub(Mul(cosPhi, c.x), Mul(sinPhi, c.y)),
                   Div(Add(arc.start.x, arc.end.x), Int2Num(2))),
       cy  |-> Add(Add(Mul(sinPhi, c.x), Mul(cosPhi, c.y)),
                   Div(Add(arc.start.y, arc.end.y), Int2Num(2))),
       theta1 |-> angle([x |-> Int2Num(1), y |-> Int2Num(0)], vec1),
       dtheta |-> SweepCorrect(arc.sweep, angle(vec1, vec2))]

\* From the corrected radii on: the centre of the ellipse.
ConvertCentre(arc, phi, sinPhi, cosPhi, p, r) ==
  ConvertAngles(arc, phi, sinPhi, cosPhi, p, r,
    CentreInFrame(CFactor(Mul(r.rx, r.rx), Mul(r.ry, r.ry),
                          Mul(p.x, p.x), Mul(p.y, p.y),
                          arc.largeArc, arc.sweep),
                  r, p))

\* From sinPhi and cosPhi on: the chord and the correction of the radii.
ConvertRadii(arc, phi, sinPhi, cosPhi, p) ==
  ConvertCentre(arc, phi, sinPhi, cosPhi, p,
                CorrectRadii(MathAbs(arc.rx), MathAbs(arc.ry), p))

ConvertInFrame(arc, phi, sinPhi, cosPhi) ==
  ConvertRadii(arc, phi, sinPhi, cosPhi, ChordInFrame(arc, sinPhi, cosPhi))

ConvertWithPhi(arc, phi) == ConvertInFrame(arc, phi, MathSin(phi), MathCos(phi))

convertArcParams(arc) ==
  IF Eq(arc.rx, Fin(0)) \/ Eq(arc.ry, Fin(0)) THEN DegenerateAlt(arc)
  ELSE ConvertWithPhi(arc, PhiOf(arc.rotation))

\* The bounding box of the two endpoints alone.
EndpointBox(arc) ==
  [left   |-> MathMin(<<arc.start.x, arc.end.x>>),
   right  |-> MathMax(<<arc.start.x, arc.end.x>>),
   top    |-> MathMin(<<arc.start.y, arc.end.y>>),
   bottom |-> MathMax(<<arc.start.y, arc.end.y>>)]

\* A faulty IsSegment, without the test of the radii; C4 tells it from
\* IsSegment.
IsSegment_EndpointsOnly(arc) ==
  Eq(arc.start.x, arc.end.x) /\ Eq(arc.start.y, arc.end.y)

\* The fast path of arcBound: a zero radius or coincident endpoints.
IsSegment(arc) ==
  \/ Eq(arc.rx, Fin(0))
  \/ Eq(arc.ry, Fin(0))
  \/ (Eq(arc.start.x, arc.end.x) /\ Eq(arc.start.y, arc.end.y))

\* Math.atan(-ry / rx * tanPhi)
ThetaExtremaX(alt) ==
  LET tanPhi == Div(MathSin(alt.phi), MathCos(alt.phi))
  IN  MathAtan(Mul(Div(Neg(alt.ry), alt.rx), tanPhi))

\* Math.atan(ry / rx / tanPhi)
ThetaExtremaY(alt) ==
  LET tanPhi == Div(MathSin(alt.phi), MathCos(alt.phi))
  IN  MathAtan(Div(Div(alt.ry, alt.rx), tanPhi))

\* The offsets the loop of arcBound adds to a stationary angle.
ExtremaOffsets ==
  <<Mul(Int2Num(-2), MathPI), Neg(MathPI), Fin(0), MathPI, Mul(Int2Num(2), MathPI)>>

\* 0 < (theta - theta1) / dtheta < 1
InsideSpan(theta, alt) ==
  LET ratio == Div(Sub(theta, alt.theta1), alt.dtheta)
  IN  Gt(ratio, Fin(0)) /\ Lt(ratio, Int2Num(1))

\* x and y of the ellipse of alt at angle theta.
XAt(alt, theta) ==
  Add(Sub(Mul(Mul(alt.rx, MathCos(alt.phi)), MathCos(theta)),
          Mul(Mul(alt.ry, MathSin(alt.phi)), MathSin(theta))),
      alt.cx)

YAt(alt, theta) ==
  Add(Add(Mul(Mul(alt.rx, MathSin(alt.phi)), MathCos(theta)),
          Mul(Mul(alt.ry, MathCos(alt.phi)), MathSin(theta))),
      alt.cy)

\* The candidate angles arcBound keeps: stationary angles inside the span.
RECURSIVE KeptAngles(_, _, _)
KeptAngles(thetaExtrema, alt, i) ==
  IF i > Len(ExtremaOffsets) THEN <<>>
  ELSE LET theta == Add(thetaExtrema, ExtremaOffsets[i])
       IN  (IF InsideSpan(theta, alt) THEN <<theta>> ELSE <<>>)
             \o KeptAngles(thetaExtrema, alt, i + 1)

\* The x of the kept angles, and the y of the kept angles.
XsAt(alt, kept) == [i \in 1..Len(kept) |-> XAt(alt, kept[i])]

YsAt(alt, kept) == [i \in 1..Len(kept) |-> YAt(alt, kept[i])]

\* A faulty maybeExtremaXs, starting from x1 alone; C5 tells it from
\* MaybeExtremaXs.
MaybeExtremaXs_StartOnly(arc, alt) ==
  <<arc.start.x>> \o XsAt(alt, KeptAngles(ThetaExtremaX(alt), alt, 1))

\* maybeExtremaXs and maybeExtremaYs after the loop.
MaybeExtremaXs(arc, alt) ==
  <<arc.start.x, arc.end.x>> \o XsAt(alt, KeptAngles(ThetaExtremaX(alt), alt, 1))

MaybeExtremaYs(arc, alt) ==
  <<arc.start.y, arc.end.y>> \o YsAt(alt, KeptAngles(ThetaExtremaY(alt), alt, 1))

\* The rectangle of the candidates.
RectOf(xs, ys) ==
  [left |-> MathMin(xs), right |-> MathMax(xs),
   top  |-> MathMin(ys), bottom |-> MathMax(ys)]

\* The general case of arcBound, from the centre form on.
BoundOfAlt(arc, alt) == RectOf(MaybeExtremaXs(arc, alt), MaybeExtremaYs(arc, alt))

arcBound(arc) ==
  IF IsSegment(arc) THEN EndpointBox(arc)
  ELSE BoundOfAlt(arc, convertArcParams(arc))

(***************************************************************************)
(* The arcs the page renders: the Cartesian product of index.tsx, widened  *)
(* to every end point of a grid and to zero radii.                         *)
(***************************************************************************)
\* End points have integer coordinates in -MaxCoord..MaxCoord.
MaxCoord == 1

\* Radii are 0, 1/2 and the integers up to MaxRadius.
MaxRadius == 2

starts == {[x |-> Int2Num(-1), y |-> Int2Num(0)]}

ends == {[x |-> Int2Num(i), y |-> Int2Num(j)] :
           i \in -MaxCoord..MaxCoord, j \in -MaxCoord..MaxCoord}

radii == {Fin(0), Fin(Scale \div 2)} \cup {Int2Num(i) : i \in 1..MaxRadius}

rotations == {Int2Num(0), Int2Num(30), Int2Num(-45), Int2Num(90)}

combinations ==
  [start : starts, end : ends, rx : radii, ry : radii,
   rotation : rotations, largeArc : BOOLEAN, sweep : BOOLEAN]

\* No value yet.
NoResult == [none |-> TRUE]

VARIABLES
  arc,    \* the arc being rendered
  bound,  \* arcBound(arc), once computed
  ref,    \* convertArcParams(arc), once computed
  prev    \* ref of the same arc with the other sweep flag, once rendered

vars == <<arc, bound, ref, prev>>

Init ==
  /\ arc \in combinations
  /\ bound = NoResult
  /\ ref = NoResult
  /\ prev = NoResult

\* const bound = arcBound(arc);
CallArcBound ==
  /\ bound = NoResult
  /\ bound' = arcBound(arc)
  /\ UNCHANGED <<arc, ref, prev>>

\* const ref = convertArcParams(arc);
CallConvertArcParams ==
  /\ bound # NoResult
  /\ ref = NoResult
  /\ ref' = convertArcParams(arc)
  /\ UNCHANGED <<arc, bound, prev>>

\* The page goes on to the combination that differs in sweep alone.
NextSweep ==
  /\ ref # NoResult
  /\ prev = NoResult
  /\ prev' = ref
  /\ arc' = [arc EXCEPT !.sweep = ~arc.sweep]
  /\ bound' = NoResult
  /\ ref' = NoResult

Next == CallArcBound \/ CallConvertArcParams \/ NextSweep

Spec == Init /\ [][Next]_vars

(***************************************************************************)
(* Vocabulary of the properties.                                           *)
(***************************************************************************)
\* a <= b; false when either is NaN.
Le(a, b) == Lt(a, b) \/ Eq(a, b)

\* |a - b| <= tol; false when either is not finite.
Near(a, b, tol) == IsFinite(a) /\ IsFinite(b) /\ AbsI(a.v - b.v) <= tol

\* Every field of an ArcAlt, and of a Rect, is a finite number.
AltIsFinite(alt) ==
  /\ IsFinite(alt.phi) /\ IsFinite(alt.rx) /\ IsFinite(alt.ry)
  /\ IsFinite(alt.cx) /\ IsFinite(alt.cy)
  /\ IsFinite(alt.theta1) /\ IsFinite(alt.dtheta)

RectIsFinite(rect) ==
  /\ IsFinite(rect.left) /\ IsFinite(rect.right)
  /\ IsFinite(rect.top) /\ IsFinite(rect.bottom)

ZeroRadius(a) == Eq(a.rx, Fin(0)) \/ Eq(a.ry, Fin(0))

Coincident(a) == a.start = a.end

\* Rounding allowance for coordinates and radii: 0.05.
CoordTol == Scale \div 20

\* Rounding allowance for angles: 0.03 rad.  acos loses half the digits near
\* +-1, so an angle is known to about the square root of the resolution.
AngleTol == 3 * (Scale \div 100)

\* The arc is sampled at theta1 + dtheta * i / Samples, i in 0..Samples.
Samples == 32

SampleAngle(alt, i) ==
  Add(alt.theta1, Div(Mul(alt.dtheta, Int2Num(i)), Int2Num(Samples)))

\* The point of the traced arc at sample i lies in rect, rounding allowed.
SampleInside(alt, i, rect) ==
  LET x == XAt(alt, SampleAngle(alt, i))
      y == YAt(alt, SampleAngle(alt, i))
  IN  /\ IsFinite(x) /\ IsFinite(y)
      /\ rect.left.v - CoordTol <= x.v /\ x.v <= rect.right.v + CoordTol
      /\ rect.top.v - CoordTol <= y.v /\ y.v <= rect.bottom.v + CoordTol

\* Each side of rect is touched by a sampled point or by a kept extremum, so
\* no smaller rectangle contains the arc.
TouchesSides(a, alt, rect) ==
  LET xs == {XAt(alt, SampleAngle(alt, i)) : i \in 0..Samples}
              \cup {MaybeExtremaXs(a, alt)[i] : i \in 3..Len(MaybeExtremaXs(a, alt))}
      ys == {YAt(alt, SampleAngle(alt, i)) : i \in 0..Samples}
              \cup {MaybeExtremaYs(a, alt)[i] : i \in 3..Len(MaybeExtremaYs(a, alt))}
  IN  /\ \E x \in xs : Near(x, rect.left, CoordTol)
      /\ \E x \in xs : Near(x, rect.right, CoordTol)
      /\ \E y \in ys : Near(y, rect.top, CoordTol)
      /\ \E y \in ys : Near(y, rect.bottom, CoordTol)

\* rect contains every sampled point of the arc and is touched on each side.
IsTightBound(a, alt, rect) ==
  /\ \A i \in 0..Samples : SampleInside(alt, i, rect)
  /\ TouchesSides(a, alt, rect)

\* C1: arcBound(arc) is the minimal rectangle containing the whole traced
\* arc: every point (x(theta), y(theta)) for theta between theta1 and
\* theta1 + dtheta lies inside it, and each of its sides is reached by the arc.
\* Stated for the arcs whose centre form is numeric, rounding allowed.
C1_BoundIsTight ==
  (bound # NoResult /\ ~IsSegment(arc) /\ AltIsFinite(convertArcParams(arc)))
    => IsTightBound(arc, convertArcParams(arc), bound)

\* C2: convertArcParams and arcBound return only finite numbers, for every
\* arc with finite coordinates and non-negative radii, zero radii and
\* coincident endpoints included.
C2_ResultsFinite ==
  /\ ref # NoResult => AltIsFinite(ref)
  /\ bound # NoResult => RectIsFinite(bound)

\* C3: with rx = 0 or ry = 0, convertArcParams yields theta1 = 0,
\* dtheta = pi and the midpoint of start and end as centre, whatever the
\* rotation and the flags.
C3_DegenerateRadius ==
  (ref # NoResult /\ ZeroRadius(arc))
    => /\ ref.theta1 = Fin(0)
       /\ ref.dtheta = MathPI
       /\ IsFinite(ref.cx) /\ 2 * ref.cx.v = arc.start.x.v + arc.end.x.v
       /\ IsFinite(ref.cy) /\ 2 * ref.cy.v = arc.start.y.v + arc.end.y.v

C3_Witness ==
  /\ ref # NoResult
  /\ Eq(arc.rx, Fin(0))
  /\ ~Eq(arc.ry, Fin(0))
  /\ arc.rotation = Int2Num(30)
  /\ arc.largeArc
  /\ arc.start # arc.end

\* The least and the greatest of two finite numbers, as integers.
Least(a, b) == IF a.v <= b.v THEN a.v ELSE b.v

Greatest(a, b) == IF a.v >= b.v THEN a.v ELSE b.v

\* C4: with rx = 0 or ry = 0, or with start equal to end, arcBound is the
\* bounding box of the two endpoints alone.
C4_DegenerateBound ==
  (bound # NoResult /\ (ZeroRadius(arc) \/ Coincident(arc)))
    => /\ bound.left = Fin(Least(arc.start.x, arc.end.x))
       /\ bound.right = Fin(Greatest(arc.start.x, arc.end.x))
       /\ bound.top = Fin(Least(arc.start.y, arc.end.y))
       /\ bound.bottom = Fin(Greatest(arc.start.y, arc.end.y))

C4_Witness ==
  /\ bound # NoResult
  /\ Eq(arc.ry, Fin(0))
  /\ arc.start.x # arc.end.x
  /\ arc.start.y # arc.end.y

\* C5: the Rect of arcBound contains start and end: left <= min(x1, x2),
\* max(x1, x2) <= right, top <= min(y1, y2), max(y1, y2) <= bottom, hence
\* left <= right and top <= bottom.
C5_ContainsEndpoints ==
  bound # NoResult
    => /\ Le(bound.left, Fin(Least(arc.start.x, arc.end.x)))
       /\ Le(Fin(Greatest(arc.start.x, arc.end.x)), bound.right)
       /\ Le(bound.top, Fin(Least(arc.start.y, arc.end.y)))
       /\ Le(Fin(Greatest(arc.start.y, arc.end.y)), bound.bottom)
       /\ Le(bound.left, bound.right)
       /\ Le(bound.top, bound.bottom)

\* A curved arc whose box is strictly wider and taller than its chord's.
C5_Witness ==
  /\ bound # NoResult
  /\ ~IsSegment(arc)
  /\ Lt(bound.left, Fin(Least(arc.start.x, arc.end.x)))
  /\ Lt(Fin(Greatest(arc.start.y, arc.end.y)), bound.bottom)

\* dtheta is negative; dtheta is a number that is not negative.
Negative(a) == Lt(a, Fin(0))

NonNegative(a) == Le(Fin(0), a)

\* C6 as stated: flipping sweep alone turns a negative dtheta into a
\* non-negative one and a non-negative dtheta into a negative one, for any
\* arc.  prev is the result before the flip and ref the result after it;
\* stated for the results whose dtheta is a number.
C6_SweepFlipsSign ==
  (prev # NoResult /\ ref # NoResult
     /\ IsFinite(prev.dtheta) /\ IsFinite(ref.dtheta))
    => /\ Negative(prev.dtheta) => NonNegative(ref.dtheta)
       /\ NonNegative(prev.dtheta) => Negative(ref.dtheta)

\* C6 as amended: with non-zero radii, sweep = true never yields a negative
\* dtheta and sweep = false never a positive one, and flipping sweep alone
\* turns a positive dtheta into a negative one and a negative one into a
\* positive one; with a zero radius dtheta is pi before and after the flip.
C6_SweepSign ==
  /\ (ref # NoResult /\ ~ZeroRadius(arc))
       => /\ arc.sweep => ~Negative(ref.dtheta)
          /\ ~arc.sweep => ~Gt(ref.dtheta, Fin(0))
  /\ (prev # NoResult /\ ref # NoResult /\ ~ZeroRadius(arc))
       => /\ Gt(prev.dtheta, Fin(0)) => Negative(ref.dtheta)
          /\ Negative(prev.dtheta) => Gt(ref.dtheta, Fin(0))
  /\ (prev # NoResult /\ ref # NoResult /\ ZeroRadius(arc))
       => prev.dtheta = MathPI /\ ref.dtheta = MathPI

\* A flip that took a correction by 2 pi: the same uncorrected angle, once
\* kept and once moved to the other side of zero.
C6_Witness ==
  /\ prev # NoResult
  /\ ref # NoResult
  /\ ~ZeroRadius(arc)
  /\ IsFinite(prev.dtheta)
  /\ IsFinite(ref.dtheta)
  /\ AbsI(prev.dtheta.v - ref.dtheta.v) = TwoPI
  /\ Negative(ref.dtheta)

\* C7: every ArcAlt of convertArcParams has dtheta strictly between -2 pi
\* and 2 pi, and never exactly zero.
C7_DthetaRange ==
  ref # NoResult
    => /\ Gt(ref.dtheta, Mul(Int2Num(-2), MathPI))
       /\ Lt(ref.dtheta, Mul(Int2Num(2), MathPI))
       /\ ~Eq(ref.dtheta, Fin(0))

RadiiTooSmall(a) ==
  Gt(SqrtLambda(MathAbs(a.rx), MathAbs(a.ry),
                ChordInFrame(a, MathSin(PhiOf(a.rotation)),
                             MathCos(PhiOf(a.rotation)))),
     Int2Num(1))

LambdaOf(a, alt) ==
  LET p == ChordInFrame(a, MathSin(PhiOf(a.rotation)), MathCos(PhiOf(a.rotation)))
  IN  Add(Div(Mul(p.x, p.x), Mul(alt.rx, alt.rx)),
          Div(Mul(p.y, p.y), Mul(alt.ry, alt.ry)))

\* C9 as stated: if the radii are too small, the returned radii are the given
\* ones scaled by one factor and satisfy x1p^2/rx'^2 + y1p^2/ry'^2 = 1;
\* otherwise they are |rx| and |ry| unchanged.
C9_RadiiCorrection ==
  (ref # NoResult /\ ~ZeroRadius(arc))
    => IF RadiiTooSmall(arc)
       THEN /\ LambdaOf(arc, ref) = Int2Num(1)
            /\ Mul(ref.rx, MathAbs(arc.ry)) = Mul(ref.ry, MathAbs(arc.rx))
       ELSE ref.rx = MathAbs(arc.rx) /\ ref.ry = MathAbs(arc.ry)

\* C9 as amended: the same, with the equalities of the enlarged radii holding
\* up to rounding.
C9_RadiiCorrectionAmended ==
  (ref # NoResult /\ ~ZeroRadius(arc))
    => IF RadiiTooSmall(arc)
       THEN /\ Near(LambdaOf(arc, ref), Int2Num(1), CoordTol)
            /\ Near(Mul(ref.rx, MathAbs(arc.ry)), Mul(ref.ry, MathAbs(arc.rx)),
                    CoordTol)
            /\ Gt(ref.rx, MathAbs(arc.rx))
            /\ Gt(ref.ry, MathAbs(arc.ry))
       ELSE ref.rx = MathAbs(arc.rx) /\ ref.ry = MathAbs(arc.ry)

C9_Witness ==
  /\ ref # NoResult
  /\ ~ZeroRadius(arc)
  /\ RadiiTooSmall(arc)
  /\ arc.rx # arc.ry
  /\ arc.rotation = Int2Num(30)

\* Stationary angles repeat with period pi; those with |k| <= MaxPeriods
\* are looked at (the span lies within -3 pi .. 3 pi).
MaxPeriods == 4

StationaryAngles(thetaExtrema) ==
  {Add(thetaExtrema, Mul(Int2Num(k), MathPI)) : k \in -MaxPeriods..MaxPeriods}

\* Every stationary angle strictly inside the span is among the kept ones.
NoneMissed(thetaExtrema, alt) ==
  \A theta \in StationaryAngles(thetaExtrema) :
    InsideSpan(theta, alt)
      => \E i \in 1..Len(KeptAngles(thetaExtrema, alt, 1)) :
           KeptAngles(thetaExtrema, alt, 1)[i] = theta

\* C10: in arcBound the candidates thetaExtrema + k pi, k in -2..2, cover
\* every stationary angle of x and of y strictly inside the traversed span;
\* none is missed.
C10_OffsetsCoverSpan ==
  (bound # NoResult /\ ~IsSegment(arc) /\ AltIsFinite(convertArcParams(arc)))
    => /\ NoneMissed(ThetaExtremaX(convertArcParams(arc)), convertArcParams(arc))
       /\ NoneMissed(ThetaExtremaY(convertArcParams(arc)), convertArcParams(arc))

=============================================================================
